---- MODULE Spec2Model ----
(***************************************************************************)
(* Model of ssa/stmt_builder.go (llgo): logical basic blocks, the builder  *)
(* (insertion point + current block), the insert-point policies of         *)
(* SetBlockEx, the control-transfer emitters (Jump, If, Return, Panic,     *)
(* Unreachable, Go, Extract) and phi nodes (Phi, AddIncoming).             *)
(*                                                                         *)
(* The LLVM side is modelled by what the builder API does: a physical      *)
(* block is a sequence of instructions, the insertion point is a physical  *)
(* block plus the index of the instruction it stands before (Len+1 = at    *)
(* end), emitting inserts there and leaves the point after the new         *)
(* instruction.                                                            *)
(***************************************************************************)
EXTENDS Integers, Sequences, FiniteSets, TLC

VARIABLES
    blocks,  \* the logical blocks: aBasicBlock{first, last, fn, idx}
    frags,   \* the physical blocks: each a sequence of instructions
    bfunc,   \* aBuilder.Func
    sig,     \* the declared result types of aBuilder.Func
    ip,      \* the insertion point of aBuilder.impl
    cur,     \* aBuilder.blk
    phis,    \* the incoming edges of each phi node created
    hist,    \* the last operation: its arguments, outcome and emitted instructions
    steps    \* the number of operations performed

vars == <<blocks, frags, bfunc, sig, ip, cur, phis, hist, steps>>

-----------------------------------------------------------------------------
(* Bounds of the model *)

\* longest instruction sequence drawn for an entry fragment
MaxPrologue == 3
\* most operations performed in one run
MaxSteps == 2
\* most values passed to one Return
MaxRet == 2
\* most predecessors passed to one AddIncoming
MaxPreds == 2

-----------------------------------------------------------------------------
(* InsertPoint, stmt_builder.go:78-85 *)

AtEnd == 0
AtStart == 1
BeforeLast == 2
afterInit == 3
\* a value of type InsertPoint outside the declared constants
BadPos == 4

InsertPoints == {AtEnd, AtStart, BeforeLast, afterInit, BadPos}

-----------------------------------------------------------------------------
(* Names are sequences of characters, so that strings.HasSuffix is computed *)

InitSuffix == <<".", "i", "n", "i", "t">>
NameMainInit == <<"m">> \o InitSuffix
NameInitX == InitSuffix \o <<"x">>
NameTracePanic == <<"T", "r", "a", "c", "e", "P", "a", "n", "i", "c">>
NameLauncher == <<"g">>
NoName == <<>>

\* strings.HasSuffix(s, suffix)
HasSuffix(s, suffix) ==
    /\ Len(s) >= Len(suffix)
    /\ SubSeq(s, Len(s) - Len(suffix) + 1, Len(s)) = suffix

-----------------------------------------------------------------------------
(* Functions, types, typed values *)

Funcs == {"F1", "F2"}
Types == {"T1", "T2"}

\* a backend value: which source value it carries and in which representation
Impl(s, t) == [src |-> s, as |-> t]
\* Expr{impl, Type}
MkExpr(s, t) == [impl |-> Impl(s, t), type |-> t]

Exprs == {MkExpr("v1", "T1"), MkExpr("v2", "T2")}

\* checkExpr(v, t, b): the value converted to the representation of type t
checkExpr(e, t) ==
    IF e.type = t THEN e ELSE [impl |-> Impl(e.impl.src, t), type |-> t]

-----------------------------------------------------------------------------
(* Instructions *)

Instr(op, callee, vals, dests, n) ==
    [op |-> op, callee |-> callee, vals |-> vals, dests |-> dests, n |-> n]

CallInstr(callee, vals) == Instr("call", callee, vals, <<>>, 0)
StoreInstr == Instr("store", NoName, <<Impl("v1", "T1"), Impl("g", "T1")>>, <<>>, 0)
LoadInstr(sym) == Instr("load", sym, <<>>, <<>>, 0)
RetVoid == Instr("ret", NoName, <<>>, <<>>, 0)
Ret(v) == Instr("ret", NoName, <<v>>, <<>>, 0)
AggregateRet(vs) == Instr("aggret", NoName, vs, <<>>, 0)
Br(dest) == Instr("br", NoName, <<>>, <<dest>>, 0)
CondBr(c, t, e) == Instr("condbr", NoName, <<c>>, <<t, e>>, 0)
UnreachableInstr == Instr("unreachable", NoName, <<>>, <<>>, 0)
ExtractValue(x, i) == Instr("extractvalue", NoName, <<x>>, <<>>, i)
PhiInstr(id) == Instr("phi", NoName, <<>>, <<>>, id)

\* instr.OperandsCount(): the values, the destinations and the symbol used
OperandsCount(instr) ==
    Len(instr.vals) + Len(instr.dests) + (IF instr.callee = NoName THEN 0 ELSE 1)

\* instr.Operand(0).Name() of a one-operand instruction whose operand is a symbol
Operand0Name(instr) == instr.callee

\* notInit without the test of the operand count
notInit_anyOperands(instr) ==
    IF instr.op = "call"
    THEN ~HasSuffix(Operand0Name(instr), InitSuffix)
    ELSE TRUE

\* notInit(instr), stmt_builder.go:120-129
notInit(instr) ==
    IF instr.op = "call"
    THEN IF OperandsCount(instr) = 1
         THEN ~HasSuffix(Operand0Name(instr), InitSuffix)
         ELSE TRUE
    ELSE TRUE

\* the nil instruction: what FirstInstruction, LastInstruction and
\* NextInstruction give when there is no such instruction
NilInstr == 0

\* the loop of instrAfterInit: instr is at index i; advance, test, return or go on.
\* Advancing past the end gives the nil instruction, which the loop then uses.
RECURSIVE scanAfterInit(_, _)
scanAfterInit(body, i) ==
    IF i + 1 > Len(body)
    THEN NilInstr
    ELSE IF notInit(body[i + 1]) THEN i + 1 ELSE scanAfterInit(body, i + 1)

\* instrAfterInit(blk), stmt_builder.go:110-118, as the index of the instruction returned
instrAfterInit(body) == scanAfterInit(body, 1)

-----------------------------------------------------------------------------
(* Logical and physical blocks *)

Frags == {"p1", "p2", "p3", "p4"}
BlockIds == {1, 2, 3}
NoBlock == 0

\* aBasicBlock, stmt_builder.go:31-36
MkBlock(first, last, fn, idx) == [first |-> first, last |-> last, fn |-> fn, idx |-> idx]

\* three logical blocks: one of F1 realised by two physical blocks, one of F1
\* realised by one, and one of another function
BlockArena ==
    (1 :> MkBlock("p1", "p2", "F1", 0)) @@
    (2 :> MkBlock("p3", "p3", "F1", 1)) @@
    (3 :> MkBlock("p4", "p4", "F2", 0))

\* BasicBlock.Parent(), BasicBlock.Index()
Parent(b) == blocks[b].fn
Index(b) == blocks[b].idx

\* the builder's insertion point: before instruction `at` of `frag`
\* (at = Len + 1: at the end); NoIP: the builder was never positioned
Pos(f, k) == [frag |-> f, at |-> k]
NoIP == Pos("none", 0)
Positions == {NoIP} \cup UNION {{Pos(f, k) : k \in 1..(Len(frags[f]) + 1)} : f \in Frags}

InsertAt(body, k, instrs) == SubSeq(body, 1, k - 1) \o instrs \o SubSeq(body, k, Len(body))

\* sequences over S of length at most n
SeqUpTo(S, n) == UNION {[1..k -> S] : k \in 0..n}

-----------------------------------------------------------------------------
(* The last operation *)

\* op: the operation; blks, pos, setBlk, vals, sym, n: its arguments (block
\* arguments, policy, flag, value arguments, symbol or callback, index or phi);
\* outcome: "ok", "panic" (a Go panic), "fault" or "undefined" (after a nil
\* instruction was used); emitted: the instructions it emitted, in order;
\* fcalls: the calls it made to its callback, in order
Op(op, blks, vals, n) ==
    [op |-> op, blks |-> blks, pos |-> AtEnd, setBlk |-> FALSE, vals |-> vals,
     sym |-> NoName, n |-> n, outcome |-> "panic", emitted |-> <<>>, fcalls |-> <<>>]

NoOp == [Op("new", <<>>, <<>>, 0) EXCEPT !.outcome = "ok"]

\* a fault of the process (a nil instruction handed to the backend) ends the run;
\* a Go panic leaves the builder as it was
Alive == hist.outcome # "fault"

-----------------------------------------------------------------------------
(* Positioning *)

\* the instruction the policy resolves to, stmt_builder.go:92-103: the position
\* given to SetInsertPointAtEnd / SetInsertPointBefore, or NoIP when the
\* instruction handed to SetInsertPointBefore is nil (or the scan used nil)
ResolvePos(blk, pos) ==
    LET first == blocks[blk].first
        last == blocks[blk].last
    IN CASE pos = AtEnd -> Pos(last, Len(frags[last]) + 1)
         [] pos = AtStart ->
              IF frags[first] = <<>> THEN NoIP ELSE Pos(first, 1)
         [] pos = BeforeLast ->
              IF frags[last] = <<>> THEN NoIP ELSE Pos(last, Len(frags[last]))
         [] pos = afterInit ->
              IF instrAfterInit(frags[first]) = NilInstr
              THEN NoIP
              ELSE Pos(first, instrAfterInit(frags[first]))

\* a step that changes nothing but the record of the last operation
Only(op) ==
    /\ hist' = op
    /\ UNCHANGED <<blocks, frags, bfunc, sig, ip, cur, phis>>

\* SetBlockEx renumbering the block it makes current
DoSetBlockEx_renumber(name, blk, pos, setBlk) ==
    LET rec(outcome) == [Op(name, <<blk>>, <<>>, 0) EXCEPT
                             !.pos = pos, !.setBlk = setBlk, !.outcome = outcome]
        renumbered == IF setBlk /\ cur # NoBlock
                      THEN [blocks EXCEPT ![blk].idx = blocks[cur].idx + 1]
                      ELSE blocks
    IN
    /\ Alive
    /\ IF bfunc # blocks[blk].fn
       THEN Only(rec("panic"))
       ELSE IF pos \notin {AtEnd, AtStart, BeforeLast, afterInit}
       THEN Only(rec("panic"))
       ELSE IF ResolvePos(blk, pos) = NoIP
       THEN \/ Only(rec("fault"))
            \/ /\ ip' \in Positions
               /\ cur' = IF setBlk THEN blk ELSE cur
               /\ blocks' = renumbered
               /\ hist' = rec("undefined")
               /\ UNCHANGED <<frags, bfunc, sig, phis>>
       ELSE /\ ip' = ResolvePos(blk, pos)
            /\ cur' = IF setBlk THEN blk ELSE cur
            /\ blocks' = renumbered
            /\ hist' = rec("ok")
            /\ UNCHANGED <<frags, bfunc, sig, phis>>

\* SetBlockEx assigning the current block before the switch on pos
DoSetBlockEx_setFirst(name, blk, pos, setBlk) ==
    LET rec(outcome) == [Op(name, <<blk>>, <<>>, 0) EXCEPT
                             !.pos = pos, !.setBlk = setBlk, !.outcome = outcome]
    IN
    /\ Alive
    /\ IF bfunc # blocks[blk].fn
       THEN Only(rec("panic"))
       ELSE IF pos \notin {AtEnd, AtStart, BeforeLast, afterInit}
       THEN /\ cur' = IF setBlk THEN blk ELSE cur
            /\ hist' = rec("panic")
            /\ UNCHANGED <<blocks, frags, bfunc, sig, ip, phis>>
       ELSE IF ResolvePos(blk, pos) = NoIP
       THEN \/ /\ cur' = IF setBlk THEN blk ELSE cur
               /\ hist' = rec("fault")
               /\ UNCHANGED <<blocks, frags, bfunc, sig, ip, phis>>
            \/ /\ ip' \in Positions
               /\ cur' = IF setBlk THEN blk ELSE cur
               /\ hist' = rec("undefined")
               /\ UNCHANGED <<blocks, frags, bfunc, sig, phis>>
       ELSE /\ ip' = ResolvePos(blk, pos)
            /\ cur' = IF setBlk THEN blk ELSE cur
            /\ hist' = rec("ok")
            /\ UNCHANGED <<blocks, frags, bfunc, sig, phis>>

\* SetBlockEx(blk, pos, setBlk), stmt_builder.go:88-108, called as operation `name`
DoSetBlockEx(name, blk, pos, setBlk) ==
    LET rec(outcome) == [Op(name, <<blk>>, <<>>, 0) EXCEPT
                             !.pos = pos, !.setBlk = setBlk, !.outcome = outcome]
    IN
    /\ Alive
    /\ IF bfunc # blocks[blk].fn
       THEN Only(rec("panic"))
       ELSE IF pos \notin {AtEnd, AtStart, BeforeLast, afterInit}
       THEN Only(rec("panic"))
       ELSE IF ResolvePos(blk, pos) = NoIP
       THEN \* a nil instruction is dereferenced by the backend: the process
            \* faults, or goes on with whatever insertion point results
            \/ Only(rec("fault"))
            \/ /\ ip' \in Positions
               /\ cur' = IF setBlk THEN blk ELSE cur
               /\ hist' = rec("undefined")
               /\ UNCHANGED <<blocks, frags, bfunc, sig, phis>>
       ELSE /\ ip' = ResolvePos(blk, pos)
            /\ cur' = IF setBlk THEN blk ELSE cur
            /\ hist' = rec("ok")
            /\ UNCHANGED <<blocks, frags, bfunc, sig, phis>>

SetBlockEx(blk, pos, setBlk) == DoSetBlockEx("SetBlockEx", blk, pos, setBlk)

\* SetBlock leaving the current block as it is
SetBlock_keepCurrent(blk) == DoSetBlockEx("SetBlock", blk, AtEnd, FALSE)

\* SetBlock(blk), stmt_builder.go:70-76
SetBlock(blk) == DoSetBlockEx("SetBlock", blk, AtEnd, TRUE)

-----------------------------------------------------------------------------
(* Emission *)

\* the backend builder inserts the instructions at the insertion point, which
\* then stands after them; a builder never positioned leaves them detached
Emit(instrs) ==
    IF ip = NoIP
    THEN UNCHANGED <<frags, ip>>
    ELSE /\ frags' = [frags EXCEPT ![ip.frag] = InsertAt(@, ip.at, instrs)]
         /\ ip' = Pos(ip.frag, ip.at + Len(instrs))

\* an emitting operation that completes: instructions emitted, nothing else touched
Emitting(op, instrs) ==
    /\ Emit(instrs)
    /\ hist' = [op EXCEPT !.outcome = "ok", !.emitted = instrs]
    /\ UNCHANGED <<blocks, bfunc, sig, cur, phis>>

\* Jump branching to the target's last physical block
Jump_toLast(jmpb) ==
    LET rec == Op("Jump", <<jmpb>>, <<>>, 0)
    IN
    /\ Alive
    /\ IF bfunc # blocks[jmpb].fn
       THEN Only(rec)
       ELSE Emitting(rec, <<Br(blocks[jmpb].last)>>)

\* Jump(jmpb), stmt_builder.go:203-211
Jump(jmpb) ==
    LET rec == Op("Jump", <<jmpb>>, <<>>, 0)
    IN
    /\ Alive
    /\ IF bfunc # blocks[jmpb].fn
       THEN Only(rec)
       ELSE Emitting(rec, <<Br(blocks[jmpb].first)>>)

\* If checking the function of thenb alone
If_thenOnly(cond, thenb, elseb) ==
    LET rec == Op("If", <<thenb, elseb>>, <<cond>>, 0)
    IN
    /\ Alive
    /\ IF bfunc # blocks[thenb].fn
       THEN Only(rec)
       ELSE Emitting(rec, <<CondBr(cond.impl, blocks[thenb].first, blocks[elseb].first)>>)

\* If(cond, thenb, elseb), stmt_builder.go:214-222
If(cond, thenb, elseb) ==
    LET rec == Op("If", <<thenb, elseb>>, <<cond>>, 0)
    IN
    /\ Alive
    /\ IF bfunc # blocks[thenb].fn \/ bfunc # blocks[elseb].fn
       THEN Only(rec)
       ELSE Emitting(rec, <<CondBr(cond.impl, blocks[thenb].first, blocks[elseb].first)>>)

\* Unreachable(), stmt_builder.go:141-143
Unreachable ==
    /\ Alive
    /\ Emitting(Op("Unreachable", <<>>, <<>>, 0), <<UnreachableInstr>>)

\* the values' backend handles, in order
Impls(es) == [i \in 1..Len(es) |-> es[i].impl]

\* Builder.Call(fn, args...): one call instruction to fn with the arguments
Call(fn, args) == <<CallInstr(fn, Impls(args))>>

\* Package.rtFunc(name): the runtime function of that name
rtFunc(name) == name

\* Panic without the unreachable terminator
Panic_noUnreachable(v) ==
    /\ Alive
    /\ Emitting(Op("Panic", <<>>, <<v>>, 0), Call(rtFunc(NameTracePanic), <<v>>))

\* Panic(v), stmt_builder.go:132-138
Panic(v) ==
    /\ Alive
    /\ Emitting(Op("Panic", <<>>, <<v>>, 0),
                Call(rtFunc(NameTracePanic), <<v>>) \o <<UnreachableInstr>>)

\* Go(fn, args...), stmt_builder.go:153-158
Go(fn, args) ==
    /\ Alive
    /\ Emitting([Op("Go", <<>>, args, 0) EXCEPT !.sym = fn], Call(fn, args))

\* llvmParams(0, vals, params, b): each value converted to the declared type
\* at its index
llvmParams(vals, params) == [i \in 1..Len(vals) |-> checkExpr(vals[i], params[i]).impl]

\* Return of one value without the conversion to the declared result type
Return_noCoerce(results) ==
    LET rec == Op("Return", <<>>, results, 0)
        n == Len(results)
    IN
    /\ Alive
    /\ CASE n = 0 -> Emitting(rec, <<RetVoid>>)
         [] n = 1 ->
              IF Len(sig) = 0
              THEN Only(rec)
              ELSE Emitting(rec, <<Ret(results[1].impl)>>)
         [] OTHER ->
              IF n > Len(sig)
              THEN Only(rec)
              ELSE Emitting(rec, <<AggregateRet(llvmParams(results, sig))>>)

\* Return(results...), stmt_builder.go:161-184. Results().At(i) panics
\* when the signature declares no result i.
Return(results) ==
    LET rec == Op("Return", <<>>, results, 0)
        n == Len(results)
    IN
    /\ Alive
    /\ CASE n = 0 -> Emitting(rec, <<RetVoid>>)
         [] n = 1 ->
              IF Len(sig) = 0
              THEN Only(rec)
              ELSE Emitting(rec, <<Ret(checkExpr(results[1], sig[1]).impl)>>)
         [] OTHER ->
              IF n > Len(sig)
              THEN Only(rec)
              ELSE Emitting(rec, <<AggregateRet(llvmParams(results, sig))>>)

\* a value of a two-result tuple type, and the number of its components
TupleExpr == MkExpr("t0", "Tup")
NumFields(x) == IF x.type = "Tup" THEN 2 ELSE 0

\* Builder.getField(x, i): component i of x; panics when x has no component i
getField(x, i) == <<ExtractValue(x.impl, i)>>

\* Extract(x, i), stmt_builder.go:195-200
Extract(x, i) ==
    LET rec == Op("Extract", <<>>, <<x>>, i)
    IN
    /\ Alive
    /\ IF i >= NumFields(x)
       THEN Only(rec)
       ELSE Emitting(rec, getField(x, i))

-----------------------------------------------------------------------------
(* Phi nodes *)

\* an incoming edge of a phi node: a value and the physical block it comes from
Edge(v, f) == [val |-> v, frag |-> f]

\* Phi(t), stmt_builder.go:250-253: a new phi node with no incoming edge
Phi(t) ==
    LET id == Len(phis) + 1
    IN
    /\ Alive
    /\ Emit(<<PhiInstr(id)>>)
    /\ phis' = Append(phis, <<>>)
    /\ hist' = [Op("Phi", <<>>, <<>>, id) EXCEPT
                   !.outcome = "ok", !.emitted = <<PhiInstr(id)>>, !.sym = <<t>>]
    /\ UNCHANGED <<blocks, bfunc, sig, cur>>

\* the callbacks handed to AddIncoming: by index, by block, by both
ValueOfs == {<<"i">>, <<"b">>, <<"i", "b">>}
ValueOf(f, i, blk) ==
    LET k == (IF "i" \in {f[j] : j \in 1..Len(f)} THEN i ELSE 0)
             + (IF "b" \in {f[j] : j \in 1..Len(f)} THEN blk ELSE 0)
    IN IF k % 2 = 0 THEN MkExpr("v1", "T1") ELSE MkExpr("v2", "T2")

\* llvmPredBlocks taking each predecessor's first physical block
llvmPredBlocks_first(preds) == [i \in 1..Len(preds) |-> blocks[preds[i]].first]

\* llvmPredBlocks(preds), stmt_builder.go:241-247
llvmPredBlocks(preds) == [i \in 1..Len(preds) |-> blocks[preds[i]].last]

\* the loop of AddIncoming, stmt_builder.go:235-237, from index i (1-based) on:
\* the values collected and the calls made to f
RECURSIVE incomingVals(_, _, _, _)
incomingVals(preds, f, i, acc) ==
    IF i > Len(preds)
    THEN acc
    ELSE incomingVals(preds, f, i + 1,
             [vals |-> Append(acc.vals, ValueOf(f, i - 1, preds[i]).impl),
              calls |-> Append(acc.calls, <<i - 1, preds[i]>>)])

\* llvm Value.AddIncoming(vals, bs): edge i pairs vals[i] with bs[i], appended
AddEdges(old, vals, bs) == old \o [i \in 1..Len(vals) |-> Edge(vals[i], bs[i])]

\* Phi.AddIncoming(b, preds, f), stmt_builder.go:232-239
AddIncoming(p, preds, f) ==
    LET bs == llvmPredBlocks(preds)
        got == incomingVals(preds, f, 1, [vals |-> <<>>, calls |-> <<>>])
    IN
    /\ Alive
    /\ p \in 1..Len(phis)
    /\ phis' = [phis EXCEPT ![p] = AddEdges(@, got.vals, bs)]
    /\ hist' = [Op("AddIncoming", preds, <<>>, p) EXCEPT
                   !.outcome = "ok", !.sym = f, !.fcalls = got.calls]
    /\ UNCHANGED <<blocks, frags, bfunc, sig, ip, cur>>

-----------------------------------------------------------------------------
(* Specifications *)

\* the result lists a function may declare
FuncSigs == {<<>>, <<"T2">>, <<"T2", "T1">>}

InitCall == CallInstr(NameMainInit, <<>>)

\* what a physical block may begin with: initializer calls, and instructions
\* that differ from one in the opcode, the operand count or the name
PrologueInstrs ==
    {InitCall, CallInstr(NameMainInit, <<Impl("v1", "T1")>>),
     CallInstr(NameInitX, <<>>), StoreInstr, LoadInstr(NameMainInit)}

\* the contents of the entry fragment in the runs of all operations
EntryBodies == {<<StoreInstr, InitCall, StoreInstr>>, <<InitCall>>}

InitWith(bodies) ==
    /\ blocks = BlockArena
    /\ \E body \in bodies :
          frags = [f \in Frags |-> IF f = "p1" THEN body
                                   ELSE <<>>]
    /\ bfunc = "F1"
    /\ sig \in FuncSigs
    /\ ip = NoIP
    /\ cur = NoBlock
    /\ phis = <<>>
    /\ hist = NoOp
    /\ steps = 0

Init == InitWith(EntryBodies)

\* one more operation of a run of at most n
Step(n, A) ==
    /\ steps < n
    /\ steps' = steps + 1
    /\ A

Positioning(n) ==
    \/ \E blk \in BlockIds, pos \in InsertPoints, setBlk \in BOOLEAN :
          Step(n, SetBlockEx(blk, pos, setBlk))
    \/ \E blk \in BlockIds : Step(n, SetBlock(blk))

Emission(n) ==
    \/ \E jmpb \in BlockIds : Step(n, Jump(jmpb))
    \/ \E cond \in {MkExpr("v1", "T1")}, thenb, elseb \in BlockIds :
          Step(n, If(cond, thenb, elseb))
    \/ Step(n, Unreachable)
    \/ \E v \in Exprs : Step(n, Panic(v))
    \/ \E args \in SeqUpTo({MkExpr("v1", "T1")}, 1) : Step(n, Go(NameLauncher, args))
    \/ \E results \in SeqUpTo(Exprs, MaxRet) : Step(n, Return(results))
    \/ \E i \in 0..NumFields(TupleExpr) : Step(n, Extract(TupleExpr, i))
    \/ \E t \in Types : Step(n, Phi(t))
    \/ \E p \in 1..Len(phis), preds \in SeqUpTo(BlockIds, MaxPreds), f \in ValueOfs :
          Step(n, AddIncoming(p, preds, f))

\* every run of at most MaxSteps operations of the builder
Next == Positioning(MaxSteps) \/ Emission(MaxSteps)

Spec == Init /\ [][Next]_vars

\* one positioning operation, on every entry fragment of at most MaxPrologue
\* instructions
InitResolve ==
    /\ InitWith(SeqUpTo(PrologueInstrs, MaxPrologue))
    /\ sig = <<>>

NextResolve == Positioning(1)

SpecResolve == InitResolve /\ [][NextResolve]_vars

-----------------------------------------------------------------------------
(* Properties *)

\* the block arguments of the last operation owned by another function than
\* the builder's
Foreign == {i \in 1..Len(hist.blks) : blocks[hist.blks[i]].fn # bfunc}

\* C1, as stated: every operation taking logical-block arguments (SetBlockEx,
\* SetBlock, Jump, If, AddIncoming with its preds) aborts when one of the blocks
\* belongs to another function than the builder's.
C1_EveryBlockOperationAborts ==
    (hist.op \in {"SetBlockEx", "SetBlock", "Jump", "If", "AddIncoming"} /\ Foreign # {})
        => hist.outcome = "panic"

\* C1, amended: SetBlockEx, SetBlock, Jump and If abort, emitting nothing, when
\* one of their blocks belongs to another function than the builder's;
\* AddIncoming makes no such check and completes whatever its preds are.
C1_PositioningAndBranchesAbort ==
    /\ (hist.op \in {"SetBlockEx", "SetBlock", "Jump", "If"} /\ Foreign # {})
          => (hist.outcome = "panic" /\ hist.emitted = <<>>)
    /\ hist.op = "AddIncoming" => hist.outcome = "ok"

\* an If whose else block alone is foreign has aborted
C1_Witness ==
    /\ hist.op = "If"
    /\ Foreign = {2}
    /\ hist.outcome = "panic"

\* an AddIncoming with a foreign predecessor has completed
C1_AddIncomingWitness ==
    /\ hist.op = "AddIncoming"
    /\ Foreign # {}
    /\ hist.outcome = "ok"

-----------------------------------------------------------------------------
(* The afterInit policy *)

\* an initializer call, in the words of the contract: a call instruction with
\* exactly one operand, whose name ends in ".init"
IsInitializerCall(instr) ==
    /\ instr.op = "call"
    /\ instr.vals = <<>>
    /\ instr.dests = <<>>
    /\ Len(instr.callee) >= 5
    /\ \A k \in 1..5 : instr.callee[Len(instr.callee) - 5 + k] = InitSuffix[k]

\* the number of initializer calls the instruction sequence starts with
RECURSIVE LeadingInits(_)
LeadingInits(body) ==
    IF body # <<>> /\ IsInitializerCall(Head(body))
    THEN 1 + LeadingInits(Tail(body))
    ELSE 0

\* the last operation is SetBlockEx(blk, afterInit, _) on a block of the builder's function
AfterInitDone ==
    /\ hist.op = "SetBlockEx"
    /\ hist.pos = afterInit
    /\ Foreign = {}

\* the first physical block of the block the last operation was given
FirstBody == frags[blocks[hist.blks[1]].first]

\* the index of the first instruction after the first one that is no initializer call
NextNonInit(body) ==
    CHOOSE j \in 2..Len(body) :
        /\ ~IsInitializerCall(body[j])
        /\ \A k \in 2..(j - 1) : IsInitializerCall(body[k])

C6_AfterInitAlwaysResolves ==
    (AfterInitDone
        /\ (Len(FirstBody) <= 1 \/ LeadingInits(FirstBody) = Len(FirstBody)))
        => /\ hist.outcome = "ok"
           /\ ip.frag = blocks[hist.blks[1]].first
           /\ ip.at \in 1..(Len(FirstBody) + 1)

-----------------------------------------------------------------------------
(* Emission *)

\* the last operation completed and its instructions stand just before the
\* insertion point (a builder never positioned holds them detached)
Placed ==
    /\ hist.outcome = "ok"
    /\ ip # NoIP =>
          /\ ip.at > Len(hist.emitted)
          /\ SubSeq(frags[ip.frag], ip.at - Len(hist.emitted), ip.at - 1) = hist.emitted

\* the value converted to the declared result type t, as the contract puts it:
\* the same source value in the representation of t
Coerced(e, t) == [src |-> e.impl.src, as |-> t]

\* C3: Return emits exactly one instruction: a void return for no value; for
\* one value a single-value return of the value converted to the first
\* declared result type; for k >= 2 values one aggregate return of k elements,
\* element i being argument i converted to declared result type i.
C3_ReturnPacking ==
    hist.op = "Return" =>
        LET k == Len(hist.vals)
            r == hist.emitted[1]
        IN /\ k = 0 => hist.outcome = "ok"
           /\ hist.outcome = "ok" =>
                 /\ Placed
                 /\ Len(hist.emitted) = 1
                 /\ r.dests = <<>> /\ r.callee = NoName
                 /\ k = 0 => (r.op = "ret" /\ r.vals = <<>>)
                 /\ k = 1 => (r.op = "ret" /\ r.vals = <<Coerced(hist.vals[1], sig[1])>>)
                 /\ k >= 2 =>
                       /\ r.op = "aggret"
                       /\ Len(r.vals) = k
                       /\ \A i \in 1..k : r.vals[i] = Coerced(hist.vals[i], sig[i])

\* a single value of type T1 returned from a function declaring T2, placed in a block
C3_Witness ==
    /\ hist.op = "Return"
    /\ hist.outcome = "ok"
    /\ Len(hist.vals) = 1
    /\ hist.vals[1].type = "T1"
    /\ sig[1] = "T2"
    /\ ip # NoIP

\* two values returned as one aggregate
C3_AggregateWitness ==
    /\ hist.op = "Return"
    /\ hist.outcome = "ok"
    /\ Len(hist.vals) = 2
    /\ hist.vals[1].type # hist.vals[2].type

\* C8: Jump emits exactly one unconditional branch to the first physical block
\* of its target, If exactly one conditional branch to the first physical
\* blocks of thenb and elseb, while every edge AddIncoming adds comes from the
\* last physical block of its predecessor.
C8_BranchToFirstEdgeFromLast ==
    /\ (hist.op = "Jump" /\ hist.outcome = "ok") =>
          /\ Placed
          /\ Len(hist.emitted) = 1
          /\ hist.emitted[1].op = "br"
          /\ hist.emitted[1].vals = <<>>
          /\ hist.emitted[1].dests = <<blocks[hist.blks[1]].first>>
    /\ (hist.op = "If" /\ hist.outcome = "ok") =>
          /\ Placed
          /\ Len(hist.emitted) = 1
          /\ hist.emitted[1].op = "condbr"
          /\ hist.emitted[1].vals = <<hist.vals[1].impl>>
          /\ hist.emitted[1].dests = <<blocks[hist.blks[1]].first, blocks[hist.blks[2]].first>>
    /\ hist.op = "AddIncoming" =>
          LET edges == phis[hist.n]
              k == Len(hist.blks)
          IN /\ Len(edges) >= k
             /\ \A i \in 1..k : edges[Len(edges) - k + i].frag = blocks[hist.blks[i]].last

\* a jump placed in a block, to a block whose first and last physical blocks differ
C8_Witness ==
    /\ hist.op = "Jump"
    /\ hist.outcome = "ok"
    /\ ip # NoIP
    /\ blocks[hist.blks[1]].first # blocks[hist.blks[1]].last

\* C9: SetBlock(blk) and SetBlockEx(blk, AtEnd, true) abort in the same case,
\* blk being owned by another function than the builder's, and otherwise both
\* leave the insertion point at the end of blk's last physical block and blk
\* the current block.
C9_SetBlockIsAtEndTrue ==
    (hist.op = "SetBlock"
        \/ (hist.op = "SetBlockEx" /\ hist.pos = AtEnd /\ hist.setBlk)) =>
        LET blk == hist.blks[1]
        IN /\ blocks[blk].fn # bfunc => hist.outcome = "panic"
           /\ blocks[blk].fn = bfunc =>
                 /\ hist.outcome = "ok"
                 /\ ip = Pos(blocks[blk].last, Len(frags[blocks[blk].last]) + 1)
                 /\ cur = blk

\* SetBlock done on a block whose last physical block is not its first
C9_Witness ==
    /\ hist.op = "SetBlock"
    /\ hist.outcome = "ok"
    /\ cur = 1
    /\ ip = Pos("p2", 1)
    /\ blocks[1].first # "p2"

-----------------------------------------------------------------------------
(* Properties of a step *)

\* C4: AddIncoming(preds, valueOf) calls valueOf(i, preds[i]) once for each i,
\* in index order, and adds to its phi node exactly Len(preds) edges, edge i
\* pairing the value returned for preds[i] with the last physical block of
\* preds[i]; the edges the node had stay, and no other node changes.
C4_AddIncomingStep ==
    hist'.op = "AddIncoming" =>
        LET preds == hist'.blks
            f == hist'.sym
            p == hist'.n
        IN /\ hist'.outcome = "ok"
           /\ hist'.fcalls = [i \in 1..Len(preds) |-> <<i - 1, preds[i]>>]
           /\ Len(phis') = Len(phis)
           /\ \A q \in 1..Len(phis) : q # p => phis'[q] = phis[q]
           /\ Len(phis'[p]) = Len(phis[p]) + Len(preds)
           /\ SubSeq(phis'[p], 1, Len(phis[p])) = phis[p]
           /\ \A i \in 1..Len(preds) :
                 phis'[p][Len(phis[p]) + i] =
                     [val |-> ValueOf(f, i - 1, preds[i]).impl,
                      frag |-> blocks[preds[i]].last]

\* C4: every step of AddIncoming wires its phi node as C4_AddIncomingStep states.
C4_PhiPredecessorConsistency == [][C4_AddIncomingStep]_vars

\* two edges added from two predecessors, one of them split into two physical
\* blocks, with different values
C4_Witness ==
    /\ hist.op = "AddIncoming"
    /\ hist.blks = <<1, 2>>
    /\ Len(phis[hist.n]) = 2
    /\ phis[hist.n][1].frag = "p2"
    /\ phis[hist.n][1].val # phis[hist.n][2].val

\* C5: Panic(v) emits, at the insertion point, exactly one call of the runtime
\* function TracePanic with the single argument v, then exactly one
\* unreachable, and nothing else.
C5_PanicStep ==
    hist'.op = "Panic" =>
        LET v == hist'.vals[1]
            shape == <<[op |-> "call", callee |-> NameTracePanic, vals |-> <<v.impl>>,
                        dests |-> <<>>, n |-> 0],
                       [op |-> "unreachable", callee |-> NoName, vals |-> <<>>,
                        dests |-> <<>>, n |-> 0]>>
        IN /\ hist'.outcome = "ok"
           /\ hist'.emitted = shape
           /\ ip = NoIP => (frags' = frags /\ ip' = ip)
           /\ ip # NoIP =>
                 /\ frags' = [frags EXCEPT ![ip.frag] = InsertAt(@, ip.at, shape)]
                 /\ ip' = Pos(ip.frag, ip.at + 2)

\* C5: every step of Panic emits the call and the unreachable as C5_PanicStep states.
C5_PanicLoweringShape == [][C5_PanicStep]_vars

\* a panic lowered in the middle of a physical block: the call and the
\* unreachable stand between the instructions that were there
C5_Witness ==
    /\ hist.op = "Panic"
    /\ ip # NoIP
    /\ ip.at > 3
    /\ ip.at <= Len(frags[ip.frag])
    /\ frags[ip.frag][ip.at - 2].callee = NameTracePanic
    /\ frags[ip.frag][ip.at - 1].op = "unreachable"

\* C7: no operation changes what Index() and Parent() return for any block.
C7_IdentityStep ==
    \A b \in BlockIds : blocks'[b].idx = Index(b) /\ blocks'[b].fn = Parent(b)

\* C7: every step of every operation leaves Index() and Parent() of every block as they were.
C7_BlockIdentityStable == [][C7_IdentityStep]_vars

\* a block made current by a second positioning still has its index and function
C7_Witness ==
    /\ hist.op \in {"SetBlock", "SetBlockEx"}
    /\ hist.outcome = "ok"
    /\ steps = 2
    /\ cur = 2
    /\ Index(cur) = 1
    /\ Parent(cur) = "F1"

\* C10: the current block changes only when SetBlockEx (also as SetBlock)
\* returns with setBlk = true, and is then blk; it stays when setBlk is false,
\* when SetBlockEx aborts, and across every emitting operation. When
\* SetBlockEx, Jump or If abort, the insertion point has not moved and nothing
\* was emitted.
C10_FrameStep ==
    LET positioned == /\ hist'.op \in {"SetBlockEx", "SetBlock"}
                      /\ hist'.setBlk
                      /\ hist'.outcome \in {"ok", "undefined"}
    IN /\ positioned => cur' = hist'.blks[1]
       /\ ~positioned => cur' = cur
       /\ (hist'.outcome = "panic" /\ hist'.op \in {"SetBlockEx", "SetBlock", "Jump", "If"})
             => (ip' = ip /\ frags' = frags /\ hist'.emitted = <<>>)

\* C10: every step of every operation treats the current block and an abort as C10_FrameStep states.
C10_CurrentBlockFrame == [][C10_FrameStep]_vars

\* SetBlockEx aborted on an unknown policy with setBlk = true, the current
\* block being another one
C10_Witness ==
    /\ hist.op = "SetBlockEx"
    /\ hist.pos \notin {AtEnd, AtStart, BeforeLast, afterInit}
    /\ hist.setBlk
    /\ hist.outcome = "panic"
    /\ cur # NoBlock
    /\ cur # hist.blks[1]

====
